---- MODULE Spec2Model ----
(***************************************************************************)
(* Model of gh-pages-cli's cached-request subsystem (ghp/requests.py,      *)
(* ghp/downloadable.py, ghp/app.py) and of the entity layer it consults    *)
(* (ghp/objects.py, ghp/states.py).                                        *)
(*                                                                         *)
(* One behaviour follows the cache directory of ONE request kind over      *)
(* several runs of the program.  Every Request instance only reads and     *)
(* writes its own `dirpath`, so the directories of different kinds are     *)
(* independent.                                                            *)
(***************************************************************************)
EXTENDS Integers, Sequences, FiniteSets, TLC

\* ------------------------------------------------------------------------
\* Bounds of the model
\* ------------------------------------------------------------------------
MaxClock == 3       \* the clock (epoch seconds) runs over 1..MaxClock
MaxRuns == 2        \* number of program runs in one behaviour
MaxRequests == 2    \* Request instances constructed in one run
MaxCrashes == 1     \* process crashes in the middle of a write
MaxTokens == 12     \* a write dies after at most this many tokens
MaxPieces == 3      \* a commit body is made of at most this many pieces
MaxSteps == 3       \* a job has at most this many steps
MaxDeploys == 2     \* deploys handed to find_deploy
MaxBuilds == 2      \* builds handed to find_build

\* ------------------------------------------------------------------------
\* JSON values.  Every value has the same shape [t, s, items]:
\*   null            t = "null"
\*   string          t = "str",  s = the text
\*   list            t = "list", items = the elements
\*   object (dict)   t = "obj",  items = its pairs in insertion order
\*   pair            t = "pair", s = the key, items = <<the value>>
\* ------------------------------------------------------------------------
JNull == [t |-> "null", s |-> "", items |-> <<>>]
JStr(x) == [t |-> "str", s |-> x, items |-> <<>>]
JList(xs) == [t |-> "list", s |-> "", items |-> xs]
JPair(k, v) == [t |-> "pair", s |-> k, items |-> <<v>>]
JObj(pairs) == [t |-> "obj", s |-> "", items |-> pairs]

\* Python's None, and the "attribute was never assigned" marker
None == [t |-> "None", s |-> "", items |-> <<>>]
Unset == [t |-> "Unset", s |-> "", items |-> <<>>]

\* ------------------------------------------------------------------------
\* The content of a file is a sequence of tokens.  json.dump writes the
\* tokens one after the other (whitespace of indent=2 is skipped by
\* json.load and is left out).
\* ------------------------------------------------------------------------
Tok(k, s) == [k |-> k, s |-> s]
P(s) == Tok("punct", s)

RECURSIVE json_dump(_)
RECURSIVE DumpSeq(_, _)
\* the tokens of xs[i..], separated by commas
DumpSeq(xs, i) ==
    IF i > Len(xs) THEN <<>>
    ELSE json_dump(xs[i]) \o (IF i < Len(xs) THEN <<P(",")>> ELSE <<>>)
                          \o DumpSeq(xs, i + 1)

json_dump(v) ==
    CASE v.t = "null" -> <<Tok("null", "")>>
      [] v.t = "str"  -> <<Tok("str", v.s)>>
      [] v.t = "pair" -> <<Tok("str", v.s), P(":")>> \o json_dump(v.items[1])
      [] v.t = "list" -> <<P("[")>> \o DumpSeq(v.items, 1) \o <<P("]")>>
      [] v.t = "obj"  -> <<P("{")>> \o DumpSeq(v.items, 1) \o <<P("}")>>

\* json.load: a recursive-descent parser.  A parse result is
\* [ok, val, next]: next is the index of the first token not consumed.
ParseFail == [ok |-> FALSE, val |-> None, next |-> 0]
ParseOk(v, n) == [ok |-> TRUE, val |-> v, next |-> n]
IsTok(toks, i, k, s) == i <= Len(toks) /\ toks[i].k = k /\ toks[i].s = s

RECURSIVE ParseValue(_, _)
RECURSIVE ParseElems(_, _, _)
RECURSIVE ParsePairs(_, _, _)

\* elements of a list after "[" (acc = the elements parsed so far)
ParseElems(toks, i, acc) ==
    LET r == ParseValue(toks, i) IN
    IF ~r.ok THEN ParseFail
    ELSE IF IsTok(toks, r.next, "punct", ",")
         THEN ParseElems(toks, r.next + 1, Append(acc, r.val))
    ELSE IF IsTok(toks, r.next, "punct", "]")
         THEN ParseOk(JList(Append(acc, r.val)), r.next + 1)
    ELSE ParseFail

\* pairs of an object after "{"
ParsePairs(toks, i, acc) ==
    IF ~(i + 1 <= Len(toks) /\ toks[i].k = "str" /\ IsTok(toks, i + 1, "punct", ":"))
    THEN ParseFail
    ELSE LET r == ParseValue(toks, i + 2) IN
         IF ~r.ok THEN ParseFail
         ELSE IF IsTok(toks, r.next, "punct", ",")
              THEN ParsePairs(toks, r.next + 1, Append(acc, JPair(toks[i].s, r.val)))
         ELSE IF IsTok(toks, r.next, "punct", "}")
              THEN ParseOk(JObj(Append(acc, JPair(toks[i].s, r.val))), r.next + 1)
         ELSE ParseFail

ParseValue(toks, i) ==
    IF i > Len(toks) THEN ParseFail
    ELSE IF toks[i].k = "null" THEN ParseOk(JNull, i + 1)
    ELSE IF toks[i].k = "str" THEN ParseOk(JStr(toks[i].s), i + 1)
    ELSE IF IsTok(toks, i, "punct", "[")
         THEN IF IsTok(toks, i + 1, "punct", "]") THEN ParseOk(JList(<<>>), i + 2)
              ELSE ParseElems(toks, i + 1, <<>>)
    ELSE IF IsTok(toks, i, "punct", "{")
         THEN IF IsTok(toks, i + 1, "punct", "}") THEN ParseOk(JObj(<<>>), i + 2)
              ELSE ParsePairs(toks, i + 1, <<>>)
    ELSE ParseFail

\* json.load(fp): [ok, val]; ok = FALSE is json.JSONDecodeError
json_load(toks) ==
    LET r == ParseValue(toks, 1) IN
    IF r.ok /\ r.next = Len(toks) + 1 THEN [ok |-> TRUE, val |-> r.val]
    ELSE [ok |-> FALSE, val |-> None]

\* ------------------------------------------------------------------------
\* ghp/states.py
\* ------------------------------------------------------------------------
Ok_busy == 0
Ok_ok == 1
Ok_fail == -1
Ok_error == -2

\* member name -> Ok, per state class
Progress == [queued |-> Ok_busy, in_progress |-> Ok_busy, completed |-> Ok_ok]
BuildStatus == [null |-> Ok_busy, queued |-> Ok_busy, building |-> Ok_busy,
                built |-> Ok_ok, errored |-> Ok_fail]
StatusPendingOk == [error |-> Ok_fail, failure |-> Ok_fail, pending |-> Ok_ok,
                    in_progress |-> Ok_busy, queued |-> Ok_busy, success |-> Ok_ok]
Status == [error |-> Ok_fail, failure |-> Ok_fail, pending |-> Ok_busy,
           in_progress |-> Ok_busy, queued |-> Ok_busy, success |-> Ok_ok]

StateClasses == {"Progress", "BuildStatus", "Status"}
StateTable(cls) ==
    CASE cls = "Progress" -> Progress
      [] cls = "BuildStatus" -> BuildStatus
      [] cls = "Status" -> Status

\* A Python exception travelling up the call stack, as a value
Raise(exc) == [t |-> "Raise", s |-> exc, items |-> <<>>]
IsRaise(v) == v.t = "Raise"

\* str.lower() on the strings of the model
Lower(s) ==
    CASE s = "QUEUED" -> "queued"
      [] s = "Queued" -> "queued"
      [] s = "SUCCESS" -> "success"
      [] s = "Completed" -> "completed"
      [] s = "IN_PROGRESS" -> "in_progress"
      [] s = "BUILT" -> "built"
      [] s = "Errored" -> "errored"
      [] s = "NULL" -> "null"
      [] s = "Failure" -> "failure"
      [] s = "BOGUS" -> "bogus"
      [] OTHER -> s

\* a member of a state class, and the Ok it carries
Member(cls, name) == [t |-> cls, s |-> name, items |-> <<>>]
StateOk(state) == StateTable(state.t)[state.s]

\* AbstractState._missing_: cls(value) for a value that is no member value:
\* the member whose name matches ignoring case, else ValueError
StateFromExactName(cls, value) ==
    IF value.t \in StateClasses THEN value
    ELSE IF value.t # "str" THEN Raise("AttributeError")
    ELSE IF value.s \in DOMAIN StateTable(cls) THEN Member(cls, value.s)
    ELSE Raise("ValueError")

StateFromName(cls, value) ==
    IF value.t \in StateClasses THEN value
    ELSE IF value.t # "str" THEN Raise("AttributeError")
    ELSE LET matches == {n \in DOMAIN StateTable(cls) : Lower(n) = Lower(value.s)} IN
         IF matches # {} THEN Member(cls, CHOOSE n \in matches : TRUE)
         ELSE Raise("ValueError")

\* ------------------------------------------------------------------------
\* ghp/types.py
\* ------------------------------------------------------------------------
\* date strings strptime accepts with INPUT_FORMAT
ValidDates == {"2020-12-01T08:20:09Z"}
Date(val) ==
    IF val.t = "str" /\ val.s \in ValidDates THEN [t |-> "Date", s |-> val.s, items |-> <<>>]
    ELSE Raise("ValueError")
Sha(val) == [t |-> "Sha", s |-> val.s, items |-> <<>>]

\* Missing(): the item-not-found value (falsy, see Truthy), and its __str__
Missing == [t |-> "Missing", s |-> "", items |-> <<>>]
Missing_str(v) == ""

\* ------------------------------------------------------------------------
\* ghp/objects.py: rget and Object
\* ------------------------------------------------------------------------
\* bool(v) of a Python value
Truthy(v) ==
    CASE v.t \in {"None", "null", "Missing"} -> FALSE
      [] v.t = "str" -> v.s # ""
      [] v.t \in {"list", "obj", "text"} -> Len(v.items) > 0
      [] OTHER -> TRUE

\* source.get(key, default) of a dict
DictGet(source, key, default) ==
    LET hits == {i \in 1..Len(source.items) : source.items[i].s = key} IN
    IF hits = {} THEN default
    ELSE LET v == source.items[CHOOSE i \in hits : TRUE].items[1] IN
         IF v.t = "null" THEN None ELSE v

RECURSIVE rget(_, _)
rget(source, keys) ==
    IF Len(keys) = 0 \/ ~Truthy(source) THEN None
    ELSE IF source.t # "obj" THEN Raise("AttributeError")
    ELSE IF Len(keys) > 1 THEN rget(DictGet(source, Head(keys), JObj(<<>>)), Tail(keys))
    ELSE DictGet(source, Head(keys), None)

\* keys.split(".") of a str given by its characters; a list is taken as it is
\* (the empty str and the empty list are both falsy: no key)
RECURSIVE SplitDots(_, _, _, _)
SplitDots(chars, i, cur, acc) ==
    IF i > Len(chars) THEN Append(acc, cur)
    ELSE IF chars[i].s = "." THEN SplitDots(chars, i + 1, "", Append(acc, cur))
    ELSE SplitDots(chars, i + 1, cur \o chars[i].s, acc)

StrOf(v) == v.s
KeysOf(keys) ==
    IF Len(keys.items) = 0 THEN <<>>
    ELSE IF keys.t = "text" THEN SplitDots(keys.items, 1, "", <<>>)
    ELSE [i \in 1..Len(keys.items) |-> StrOf(keys.items[i])]

F(attr, key, rep, klass) == [attr |-> attr, key |-> key, repr |-> rep, klass |-> klass]

\* the `fields` mapping of each Object class, in declaration order
\* (key <<>> is a None key; klass "" is no wrapper)
Fields(cls) ==
    CASE cls = "Commit" ->
           << F("sha", <<"sha">>, TRUE, "Sha"),
              F("date", <<"commit", "author", "date">>, TRUE, "Date"),
              F("author", <<"commit", "author", "name">>, TRUE, ""),
              F("committer", <<"commit", "committer", "name">>, FALSE, ""),
              F("body", <<"commit", "message">>, FALSE, ""),
              F("tree", <<"commit", "tree", "sha">>, FALSE, "Sha"),
              F("stats", <<"stats">>, FALSE, ""),
              F("files", <<"files">>, FALSE, "") >>
      [] cls = "Deploy" ->
           << F("id", <<"id">>, TRUE, ""),
              F("sha", <<"sha">>, TRUE, "Sha"),
              F("date", <<"created_at">>, TRUE, "Date"),
              F("creator", <<"creator", "login">>, FALSE, ""),
              F("status", <<>>, TRUE, "Status"),
              F("master_sha", <<>>, TRUE, "Sha") >>
      [] cls = "DeployStatus" ->
           << F("id", <<"id">>, TRUE, ""),
              F("date", <<"created_at">>, TRUE, "Date"),
              F("status", <<"state">>, TRUE, "Status") >>
      [] cls = "Job" ->
           << F("id", <<"id">>, TRUE, ""),
              F("progress", <<"status">>, FALSE, "Progress"),
              F("status", <<"conclusion">>, FALSE, "Status"),
              F("sha", <<"head_sha">>, TRUE, "Sha"),
              F("name", <<"name">>, FALSE, ""),
              F("ok", <<>>, TRUE, "") >>
      [] cls = "Pages" ->
           << F("url", <<"html_url">>, TRUE, ""),
              F("branch", <<"source", "branch">>, TRUE, ""),
              F("path", <<"source", "path">>, TRUE, ""),
              F("status", <<"status">>, TRUE, "BuildStatus") >>
      [] cls = "PagesBuild" ->
           << F("id", <<>>, TRUE, ""),
              F("sha", <<"commit">>, TRUE, "Sha"),
              F("date", <<"created_at">>, TRUE, "Date"),
              F("status", <<"status">>, TRUE, "BuildStatus"),
              F("message", <<"error", "message">>, FALSE, ""),
              F("pushed_by", <<"pusher", "login">>, FALSE, "") >>
      [] cls = "Run" ->
           << F("id", <<"id">>, TRUE, ""),
              F("workflow_id", <<"workflow_id">>, FALSE, ""),
              F("number", <<"run_number">>, TRUE, ""),
              F("date", <<"created_at">>, TRUE, "Date"),
              F("sha", <<"head_sha">>, FALSE, "Sha"),
              F("job", <<"name">>, FALSE, ""),
              F("progress", <<"status">>, FALSE, "Progress"),
              F("status", <<"conclusion">>, TRUE, "Status"),
              F("branch", <<"head_branch">>, FALSE, ""),
              F("message", <<"head_commit", "message">>, FALSE, "") >>
      [] cls = "Step" ->
           << F("number", <<"number">>, TRUE, ""),
              F("status", <<"conclusion">>, TRUE, "Status"),
              F("desc", <<"name">>, TRUE, "") >>

\* klass(val) of Object.__init__
Wrap(klass, val) ==
    CASE klass = "" -> val
      [] klass = "Sha" -> Sha(val)
      [] klass = "Date" -> Date(val)
      [] klass \in StateClasses -> StateFromName(klass, val)

\* the value Object.__init__ gives one attribute: val = rget(data, key),
\* wrapped `if klass and val`
WrapValueFound(f, val) ==
    IF IsRaise(val) THEN val
    ELSE IF f.klass # "" /\ val # None THEN Wrap(f.klass, val)
    ELSE val

WrapValue(f, val) ==
    IF IsRaise(val) THEN val
    ELSE IF f.klass # "" /\ Truthy(val) THEN Wrap(f.klass, val)
    ELSE val
FieldValue(f, data) == WrapValue(f, rget(data, f.key))

\* the fields Object.__init__ assigns (those with a key)
HasKey(f) == Len(f.key) > 0
SetFields(cls) == SelectSeq(Fields(cls), HasKey)

\* Object.__init__: the attributes set, as pairs (attr, value) in declaration
\* order; an exception raised on the way replaces the object
RECURSIVE InitFrom(_, _, _, _)
RECURSIVE InitNext(_, _, _, _, _)
InitNext(flds, i, data, acc, val) ==
    IF IsRaise(val) THEN <<val>>
    ELSE InitFrom(flds, i + 1, data, Append(acc, JPair(flds[i].attr, val)))
InitFrom(flds, i, data, acc) ==
    IF i > Len(flds) THEN acc
    ELSE InitNext(flds, i, data, acc, FieldValue(flds[i], data))

ObjectOf(cls, its) ==
    IF Len(its) = 1 /\ IsRaise(its[1]) THEN its[1]
    ELSE [t |-> cls, s |-> "", items |-> its]
ObjectInit(cls, data) == ObjectOf(cls, InitFrom(SetFields(cls), 1, data, <<>>))

HasAttr(obj, attr) == \E i \in 1..Len(obj.items) : obj.items[i].s = attr
GetAttr(obj, attr) == obj.items[CHOOSE i \in 1..Len(obj.items) : obj.items[i].s = attr].items[1]

\* Object.states: the attrs progress, status that the object has
StateOf(obj, attr) == IF HasAttr(obj, attr) THEN <<GetAttr(obj, attr)>> ELSE <<>>
ObjectStates(obj) == StateOf(obj, "progress") \o StateOf(obj, "status")

\* fault: is_open that only looks for Ok.busy
AnyBusy(states) ==
    \E i \in 1..Len(states) : Truthy(states[i]) /\ StateOk(states[i]) = Ok_busy

\* Object.is_open: any state None or Ok.busy
AnyOpen(states) ==
    \E i \in 1..Len(states) : ~Truthy(states[i]) \/ StateOk(states[i]) = Ok_busy
ObjectIsOpen(obj) == AnyOpen(ObjectStates(obj))

\* ChildObject.__init__(self, parent, data): Object.__init__(data), then
\* self.parent = parent
WithParent(obj, parent) ==
    IF IsRaise(obj) THEN obj ELSE [obj EXCEPT !.items = Append(@, JPair("parent", parent))]
ChildObjectInit(cls, parent, data) == WithParent(ObjectInit(cls, data), parent)

\* a Python bool and a member of Ok, as values
PyBool(b) == [t |-> "bool", s |-> IF b THEN "True" ELSE "False", items |-> <<>>]
OkMember(n) ==
    [t |-> "Ok", items |-> <<>>,
     s |-> CASE n = Ok_busy -> "busy" [] n = Ok_ok -> "ok"
             [] n = Ok_fail -> "fail" [] n = Ok_error -> "error"]

\* fault: is_ok that passes over a state without a value
AllOkOfPresent(states) ==
    \A i \in 1..Len(states) : Truthy(states[i]) => StateOk(states[i]) = Ok_ok

\* fault: is_ok that asks only for a value, whatever its Ok
AllValued(states) ==
    \A i \in 1..Len(states) : Truthy(states[i])

\* Object.is_ok: all(state and state.ok == Ok.ok for state in self.states)
AllOk(states) ==
    \A i \in 1..Len(states) : Truthy(states[i]) /\ StateOk(states[i]) = Ok_ok
ObjectIsOk(obj) == AllOk(ObjectStates(obj))

\* min() of a non-empty sequence of Ok values
RECURSIVE MinFrom(_, _, _)
MinFrom(states, i, m) ==
    IF i > Len(states) THEN m
    ELSE MinFrom(states, i + 1, IF StateOk(states[i]) < m THEN StateOk(states[i]) ELSE m)

\* fault: max() in place of min()
MaxOk(states) ==
    IF Len(states) = 0 THEN Raise("ValueError")
    ELSE OkMember(CHOOSE n \in {StateOk(states[i]) : i \in 1..Len(states)} :
                    \A j \in 1..Len(states) : StateOk(states[j]) <= n)

\* Object.ok: min(state.ok for state in self.states if state); min() of an
\* empty iterable is a ValueError
MinOk(states) ==
    IF Len(states) = 0 THEN Raise("ValueError")
    ELSE OkMember(MinFrom(states, 2, StateOk(states[1])))
ObjectOk(obj) == MinOk(SelectSeq(ObjectStates(obj), Truthy))

\* d[key] of Python
Subscript(d, key) ==
    IF d.t = "obj"
    THEN LET hits == {i \in 1..Len(d.items) : d.items[i].s = key} IN
         IF hits = {} THEN Raise("KeyError") ELSE d.items[CHOOSE i \in hits : TRUE].items[1]
    ELSE Raise("TypeError")

\* Job.steps: [Step(self, x) for x in self.request_data["steps"]], or the
\* exception raised on the way
RECURSIVE StepsFrom(_, _, _, _)
StepsNext(job, xs, i, acc, step) ==
    IF IsRaise(step) THEN step ELSE StepsFrom(job, xs, i + 1, Append(acc, step))
StepsFrom(job, xs, i, acc) ==
    IF i > Len(xs) THEN JList(acc)
    ELSE StepsNext(job, xs, i, acc, ChildObjectInit("Step", job, xs[i]))
StepsOf(job, raw) ==
    IF IsRaise(raw) THEN raw
    ELSE IF raw.t # "list" THEN Raise("TypeError")
    ELSE StepsFrom(job, raw.items, 1, <<>>)
Job_steps(job, data) == StepsOf(job, Subscript(data, "steps"))

\* fault: a last_step that takes the last step whatever the job is
LastOf(job, steps) == steps[Len(steps)]

\* first(failed, self.steps[-1]) when the job is not ok, else self.steps[-1]
FirstFailedOrLast(job, steps) ==
    IF ~ObjectIsOk(job) /\ \E i \in 1..Len(steps) : ~ObjectIsOk(steps[i])
    THEN steps[CHOOSE i \in 1..Len(steps) :
                 ~ObjectIsOk(steps[i]) /\ \A j \in 1..(i - 1) : ObjectIsOk(steps[j])]
    ELSE steps[Len(steps)]

\* Job.last_step
LastStepOf(job, steps) ==
    IF IsRaise(steps) THEN steps
    ELSE IF Len(steps.items) = 0 THEN None
    ELSE FirstFailedOrLast(job, steps.items)
Job_last_step(job, data) == LastStepOf(job, Job_steps(job, data))

\* last(url.split("/")) on the urls of the model
UrlLast(url) ==
    CASE url = "https://api.github.com/repos/o/r/pages/builds/42" -> "42"
      [] OTHER -> url

\* PagesBuild.id: last(self.request_data.get("url").split("/"))
BuildId(data) ==
    IF DictGet(data, "url", None).t # "str" THEN Raise("AttributeError")
    ELSE JStr(UrlLast(DictGet(data, "url", None).s))

\* getattr(self, k) for a field of the mapping: the attribute __init__ set,
\* else the property of the class
FieldOf(obj, data, attr) ==
    IF HasAttr(obj, attr) THEN GetAttr(obj, attr)
    ELSE CASE obj.t = "Job" /\ attr = "ok" -> ObjectOk(obj)
           [] obj.t = "PagesBuild" /\ attr = "id" -> BuildId(data)
           [] OTHER -> Raise("AttributeError")

\* the fields __repr__ shows: `if self.fields[k][1]`
IsRepr(f) == f.repr

\* Object.__repr__: the class name and the dict {k: getattr(self, k)} of the
\* repr fields, in the order of the mapping; getattr may raise
RECURSIVE ReprFrom(_, _, _, _, _)
RECURSIVE ReprNext(_, _, _, _, _, _)
ReprNext(flds, i, obj, data, acc, val) ==
    IF IsRaise(val) THEN val
    ELSE ReprFrom(flds, i + 1, obj, data, Append(acc, JPair(flds[i].attr, val)))
ReprFrom(flds, i, obj, data, acc) ==
    IF i > Len(flds) THEN [t |-> "repr", s |-> obj.t, items |-> acc]
    ELSE ReprNext(flds, i, obj, data, acc, FieldOf(obj, data, flds[i].attr))
ObjectRepr(obj, data) == ReprFrom(SelectSeq(Fields(obj.t), IsRepr), 1, obj, data, <<>>)

\* str.split() of a str given as pieces (runs of whitespace, and runs of
\* other characters that join when adjacent): the words between whitespace
IsSpace(piece) == piece.s \in {" ", "\n", "\t"}
Flush(cur, acc) == IF cur = "" THEN acc ELSE Append(acc, cur)
RECURSIVE SplitFromPieces(_, _, _, _)
SplitFromPieces(pieces, i, cur, acc) ==
    IF i > Len(pieces) THEN Flush(cur, acc)
    ELSE IF IsSpace(pieces[i]) THEN SplitFromPieces(pieces, i + 1, "", Flush(cur, acc))
    ELSE SplitFromPieces(pieces, i + 1, cur \o pieces[i].s, acc)
split(text) == SplitFromPieces(text.items, 1, "", <<>>)

\* sha = body.split()[-1]; Sha(sha) if len(sha) == 40
ShaOfLast(words) ==
    IF Len(words) = 0 THEN Raise("IndexError")
    ELSE IF Len(words[Len(words)]) = 40 THEN Sha(JStr(words[Len(words)]))
    ELSE None

\* Deploy.master_sha, from self.commit.body
master_sha(body) == IF ~Truthy(body) THEN None ELSE ShaOfLast(split(body))

\* the str a body is, from its pieces
RECURSIVE JoinFrom(_, _)
JoinFrom(pieces, i) == IF i > Len(pieces) THEN "" ELSE pieces[i].s \o JoinFrom(pieces, i + 1)

\* the end of the first line of a str: body.splitlines()[0]
RECURSIVE LineEnd(_, _)
LineEnd(s, i) == IF i > Len(s) \/ SubSeq(s, i, i) = "\n" THEN i - 1 ELSE LineEnd(s, i + 1)
FirstLine(s) == IF LineEnd(s, 1) < 1 THEN "" ELSE SubSeq(s, 1, LineEnd(s, 1))

\* Commit.message: first(self.body.splitlines(), "")
Commit_message(body) ==
    IF body = None THEN Raise("AttributeError") ELSE JStr(FirstLine(JoinFrom(body.items, 1)))

\* str.rfind(sub): the greatest 0-based index at which sub occurs, else -1
RECURSIVE RFindFrom(_, _, _)
RFindFrom(s, sub, i) ==
    IF i < 0 THEN -1
    ELSE IF SubSeq(s, i + 1, i + Len(sub)) = sub THEN i
    ELSE RFindFrom(s, sub, i - 1)
rfind(s, sub) == RFindFrom(s, sub, Len(s) - Len(sub))

\* s[0:end], where a negative end counts from the end of s
SliceTo(s, end) ==
    IF end >= Len(s) THEN s
    ELSE IF end >= 1 THEN SubSeq(s, 1, end)
    ELSE IF end < 0 /\ Len(s) + end >= 1 THEN SubSeq(s, 1, Len(s) + end)
    ELSE ""

\* Deploy.message: `if end := message.rfind(f" {master_sha.full}")` cuts the
\* message at end when end is not 0
CutAt(msg, end) == IF end # 0 THEN JStr(SliceTo(msg, end)) ELSE JStr(msg)
MessageWith(sha, msg) ==
    IF IsRaise(sha) THEN sha
    ELSE IF ~Truthy(sha) \/ IsRaise(msg) THEN msg
    ELSE CutAt(msg.s, rfind(msg.s, " " \o sha.s))
Deploy_message(body) == MessageWith(master_sha(body), Commit_message(body))

\* str.find(sub): the least 0-based index at which sub occurs, else -1
RECURSIVE FindFrom(_, _, _)
FindFrom(s, sub, i) ==
    IF i + Len(sub) > Len(s) THEN -1
    ELSE IF SubSeq(s, i + 1, i + Len(sub)) = sub THEN i
    ELSE FindFrom(s, sub, i + 1)

\* str.partition(sep): (before, sep, after) around the first sep, or (s, "", "")
After(s, n) == IF n >= Len(s) THEN "" ELSE SubSeq(s, n + 1, Len(s))
PartitionAt(s, sep, at) ==
    IF at < 0 THEN <<s, "", "">> ELSE <<SliceTo(s, at), sep, After(s, at + Len(sep))>>
partition(s, sep) == PartitionAt(s, sep, FindFrom(s, sep, 0))

\* str.strip(): without the whitespace at both ends
IsBlank(c) == c \in {" ", "\n", "\t"}
RECURSIVE lstrip(_)
lstrip(s) == IF Len(s) > 0 /\ IsBlank(SubSeq(s, 1, 1)) THEN lstrip(Tail(s)) ELSE s
RECURSIVE rstrip(_)
rstrip(s) ==
    IF Len(s) > 0 /\ IsBlank(SubSeq(s, Len(s), Len(s))) THEN rstrip(SubSeq(s, 1, Len(s) - 1)) ELSE s
\* fault: a strip that leaves the leading whitespace
StripRight(s) == rstrip(s)
strip(s) == lstrip(rstrip(s))

\* PagesBuild.message_parts, error and more_info
Separator == "For more information, see"
message_parts(message) == partition(message.s, Separator)
PagesBuild_error(message) ==
    IF ~Truthy(message) THEN JStr("") ELSE JStr(strip(message_parts(message)[1]))
PagesBuild_more_info(message) ==
    IF ~Truthy(message) THEN None ELSE JStr(strip(message_parts(message)[3]))

\* setattr(obj, attr, val)
SetAttr(obj, attr, val) ==
    IF HasAttr(obj, attr)
    THEN [obj EXCEPT !.items = [i \in 1..Len(obj.items) |->
                                  IF obj.items[i].s = attr THEN JPair(attr, val) ELSE obj.items[i]]]
    ELSE [obj EXCEPT !.items = Append(obj.items, JPair(attr, val))]

\* Run.__init__: Object.__init__, then build and deploy are None
NotLookedUp(run) == IF IsRaise(run) THEN run ELSE SetAttr(SetAttr(run, "build", None), "deploy", None)
RunInit(data) == NotLookedUp(ObjectInit("Run", data))

\* a Deploy with the Commit its commit_request holds
DeployWith(data, commit) == SetAttr(ObjectInit("Deploy", data), "commit", ObjectInit("Commit", commit))
Deploy_master_sha(deploy) == master_sha(GetAttr(GetAttr(deploy, "commit"), "body"))

\* the outcome of a lookup: the run as it is left, and what is returned
Found(run, ret) == [run |-> run, ret |-> ret]

\* fault: the last match instead of the first
LastOr(xs, hits, default) ==
    IF hits = {} THEN default ELSE xs[CHOOSE i \in hits : \A j \in hits : j <= i]

\* first(res, default) for res = [x for x in xs if ...], hits the places of
\* the x that pass
FirstOr(xs, hits, default) ==
    IF hits = {} THEN default ELSE xs[CHOOSE i \in hits : \A j \in hits : i <= j]

\* Run.find_deploy: every d.master_sha is evaluated, so one that raises ends
\* the lookup
StoreDeploy(run, deploy) == Found(SetAttr(run, "deploy", deploy), deploy)
DeployMatching(run, deploys, shas) ==
    IF \E i \in 1..Len(shas) : IsRaise(shas[i])
    THEN Found(run, shas[CHOOSE i \in 1..Len(shas) :
                           IsRaise(shas[i]) /\ \A j \in 1..(i - 1) : ~IsRaise(shas[j])])
    ELSE StoreDeploy(run, FirstOr(deploys,
                                  {i \in 1..Len(shas) : shas[i] = GetAttr(run, "sha")},
                                  Missing))
find_deploy(run, deploys) ==
    DeployMatching(run, deploys, [i \in 1..Len(deploys) |-> Deploy_master_sha(deploys[i])])

\* Run.find_build: without a deploy, build is Missing() and the bare
\* `return` gives None
StoreBuild(run, build) == Found(SetAttr(run, "build", build), build)
find_build(run, builds) ==
    IF ~Truthy(GetAttr(run, "deploy")) THEN Found(SetAttr(run, "build", Missing), None)
    ELSE StoreBuild(run, FirstOr(builds,
                                 {i \in 1..Len(builds) :
                                     GetAttr(builds[i], "sha") = GetAttr(GetAttr(run, "deploy"), "sha")},
                                 Missing))

\* ------------------------------------------------------------------------
\* ghp/downloadable.py: the four refresh policies
\* ------------------------------------------------------------------------
Dynamic_should_refresh(downloaded, refresh) == ~downloaded /\ refresh

\* fault: Finite without the --local test
Finite_ignores_force_local(force_local, downloaded, is_open) ==
    IF downloaded THEN FALSE ELSE is_open

Finite_should_refresh(force_local, downloaded, is_open) ==
    IF force_local \/ downloaded THEN FALSE ELSE is_open

\* fault: Additive without the --refresh flag
Additive_ignores_refresh(force_local, downloaded, is_open, refresh) ==
    IF force_local \/ downloaded THEN FALSE ELSE is_open

Additive_should_refresh(force_local, downloaded, is_open, refresh) ==
    IF force_local \/ downloaded THEN FALSE ELSE is_open \/ refresh

\* fault: Static that refreshes
Static_refreshes == TRUE

Static_should_refresh == FALSE

Policies == {"Dynamic", "Finite", "Additive", "Static"}

should_refresh(policy, force_local, refresh, downloaded, is_open) ==
    CASE policy = "Dynamic" -> Dynamic_should_refresh(downloaded, refresh)
      [] policy = "Finite" -> Finite_should_refresh(force_local, downloaded, is_open)
      [] policy = "Additive" -> Additive_should_refresh(force_local, downloaded, is_open, refresh)
      [] policy = "Static" -> Static_should_refresh

\* whether should_refresh reads self.is_open at all
ReadsIsOpen(policy, force_local, downloaded) ==
    policy \in {"Finite", "Additive"} /\ ~(force_local \/ downloaded)

\* ------------------------------------------------------------------------
\* ghp/requests.py: the request classes
\* ------------------------------------------------------------------------
Kinds == {"pages", "deploys", "builds", "runs", "commits", "statuses", "jobs", "logs"}

\* the mixin each request class inherits
PolicyOf(k) ==
    CASE k = "pages" -> "Dynamic"
      [] k \in {"deploys", "builds", "runs"} -> "Additive"
      [] k = "commits" -> "Static"
      [] k \in {"statuses", "jobs", "logs"} -> "Finite"

\* classes whose file is named by an identifier ({ref}.json, {parent.id}.json,
\* {parent.id}.log) and whose exists() is filepath.is_file()
Keyed(k) == k \in {"commits", "statuses", "jobs", "logs"}

\* the name of that file; the files of the other kinds are named by the
\* stamp `today` (a clock value, same width, so that sorting the names
\* sorts the stamps)
IdName(k) == 1

\* A response of the GitHub API: s = "ok" (response.ok), "fail" (an HTTP
\* error with GitHub's JSON error body), or "raise" (requests.request or
\* response.json() raises)
Response(s, body) == [t |-> "Response", s |-> s, items |-> <<body>>]
Body(resp) == resp.items[1]

Text(chars) == [t |-> "text", s |-> "", items |-> chars]
Obj1(k, v) == JObj(<<JPair(k, v)>>)
Obj2(k1, v1, k2, v2) == JObj(<<JPair(k1, v1), JPair(k2, v2)>>)

ErrorBody == Obj2("message", JStr("Not Found"), "documentation_url", JStr("https://docs.github.com/rest"))
ErrorText == Text(<<JStr("N"), JStr("o")>>)

\* the documents the API answers with, per kind
SuccessDocs(k) ==
    CASE k = "pages" -> {Obj1("status", JStr("built")), Obj1("status", JStr("building"))}
      [] k = "commits" -> {Obj2("sha", JStr("abc"), "commit", Obj1("message", JStr("msg")))}
      [] k = "deploys" -> {JList(<<>>), JList(<<Obj2("id", JStr("1"), "sha", JStr("abc"))>>)}
      [] k = "builds" -> {JList(<<Obj1("status", JStr("built"))>>),
                         JList(<<Obj1("status", JStr("building"))>>)}
      [] k = "runs" -> {Obj1("workflow_runs", JList(<<Obj2("status", JStr("completed"), "conclusion", JStr("success"))>>)),
                       Obj1("workflow_runs", JList(<<Obj2("status", JStr("in_progress"), "conclusion", JNull)>>))}
      [] k = "statuses" -> {JList(<<>>),
                           JList(<<Obj1("state", JStr("success"))>>),
                           JList(<<Obj1("state", JStr("pending"))>>),
                           JList(<<Obj1("state", JStr("success")), Obj1("state", JStr("pending"))>>)}
      [] k = "jobs" -> {Obj1("jobs", JList(<<>>)),
                       Obj1("jobs", JList(<<Obj2("status", JStr("queued"), "conclusion", JNull)>>))}
      [] k = "logs" -> {Text(<<JStr("a"), JStr("\n"), JStr("b"), JStr("\n")>>), Text(<<JStr("a")>>)}

Responses(k) ==
    {Response("ok", d) : d \in SuccessDocs(k)}
    \cup {Response("fail", IF k = "logs" THEN ErrorText ELSE ErrorBody), Response("raise", None)}

\* str.splitlines(): the lines without their line ends
RECURSIVE SplitFrom(_, _, _, _)
SplitFrom(chars, i, cur, acc) ==
    IF i > Len(chars) THEN (IF Len(cur) > 0 THEN Append(acc, Text(cur)) ELSE acc)
    ELSE IF chars[i].s = "\n" THEN SplitFrom(chars, i + 1, <<>>, Append(acc, Text(cur)))
    ELSE SplitFrom(chars, i + 1, Append(cur, chars[i]), acc)
splitlines(text) == JList(SplitFrom(text.items, 1, <<>>, <<>>))

\* fp.readlines(): the lines with their line ends
RECURSIVE ReadFrom(_, _, _, _)
ReadFrom(toks, i, cur, acc) ==
    IF i > Len(toks) THEN (IF Len(cur) > 0 THEN Append(acc, Text(cur)) ELSE acc)
    ELSE IF toks[i].s = "\n"
         THEN ReadFrom(toks, i + 1, <<>>, Append(acc, Text(Append(cur, JStr(toks[i].s)))))
    ELSE ReadFrom(toks, i + 1, Append(cur, JStr(toks[i].s)), acc)
readlines(toks) == JList(ReadFrom(toks, 1, <<>>, <<>>))

\* ------------------------------------------------------------------------
\* State
\* ------------------------------------------------------------------------
VARIABLES
    kind,      \* the request class this behaviour follows
    disk,      \* its cache directory: file name -> content (a token sequence)
    clock,     \* datetime.today(), in seconds
    app,       \* App.APP: the flags of the current run and whether it runs
    req,       \* the Request instance under construction (or the last one)
    runs,      \* program runs started so far
    nreq,      \* Request instances constructed in the current run
    crashes,   \* crashes in the middle of a write so far
    pol,       \* inputs and result of one should_refresh evaluation (SpecPolicy)
    ent        \* inputs and results of the entity layer on its own (SpecObject, ...)

vars == <<kind, disk, clock, app, req, runs, nreq, crashes, pol, ent>>

\* a Request before __init__; `cached_filepath` is the attribute _filepath
\* (0: not in __dict__), `today` the cached property (0: not computed yet),
\* `hit` the branch get() took, `fetches`/`writes` count the calls of
\* requests.request and of open(filepath, "w")
NoRequest ==
    [pc |-> "none", downloaded |-> FALSE, error |-> FALSE, response |-> None,
     request_data |-> Unset, cached_filepath |-> 0, today |-> 0, exc |-> "",
     hit |-> FALSE, fetches |-> 0, writes |-> 0]

\* Request.__init__ up to the call of get()
NewRequest == [NoRequest EXCEPT !.pc = "get"]

\* no entity-layer evaluation under way
NoEntity == [pc |-> "none"]

NoPolicy == [policy |-> "Static", force_local |-> FALSE, refresh |-> FALSE,
             downloaded |-> FALSE, is_open |-> FALSE, result |-> FALSE, done |-> FALSE]

\* ------------------------------------------------------------------------
\* Request methods.  A context c = [r |-> the instance, d |-> the directory];
\* a method returns the context it leaves.  An exception leaves
\* r.pc = "raised" and r.exc set, and every later call is skipped.
\* ------------------------------------------------------------------------
Raised(c, exc) == [c EXCEPT !.r.pc = "raised", !.r.exc = exc]
Failed(c) == c.r.pc = "raised"

\* fault: sorted without reverse=True
RECURSIVE SortAsc(_)
SortAsc(S) ==
    IF S = {} THEN <<>>
    ELSE LET m == CHOOSE x \in S : \A y \in S : x <= y IN <<m>> \o SortAsc(S \ {m})

RECURSIVE SortDesc(_)
SortDesc(S) ==
    IF S = {} THEN <<>>
    ELSE LET m == CHOOSE x \in S : \A y \in S : y <= x IN <<m>> \o SortDesc(S \ {m})

\* Request.files: the non-empty *.json files, greatest name first
files(d) == SortDesc({n \in DOMAIN d : Len(d[n]) > 0})

\* Request.exists / ChildRequest.exists / CommitRequest.exists
exists(k, d) == IF Keyed(k) THEN IdName(k) \in DOMAIN d ELSE Len(files(d)) > 0

\* Request.today (cached_property)
today(r, clk) == IF r.today = 0 THEN [r EXCEPT !.today = clk] ELSE r

\* Request.filepath: the getter caches its answer in _filepath
filepath(k, c, clk) ==
    IF Keyed(k) \/ c.r.cached_filepath # 0 THEN c
    ELSE IF Len(files(c.d)) > 0 THEN [c EXCEPT !.r.cached_filepath = files(c.d)[1]]
    ELSE LET r1 == today(c.r, clk) IN [c EXCEPT !.r = [r1 EXCEPT !.cached_filepath = r1.today]]

\* the path the getter returns once evaluated
PathOf(k, r) == IF Keyed(k) THEN IdName(k) ELSE r.cached_filepath

\* Request.load / JobLogRequest.load
load(k, c, clk) ==
    LET c1 == filepath(k, c, clk)
        p == PathOf(k, c1.r)
    IN  IF p \notin DOMAIN c1.d THEN c1
        ELSE IF k = "logs" THEN [c1 EXCEPT !.r.request_data = readlines(c1.d[p])]
        ELSE LET j == json_load(c1.d[p]) IN
             IF j.ok THEN [c1 EXCEPT !.r.request_data = j.val]
             ELSE Raised(c1, "JSONDecodeError")

\* Request.request
request(c, resp) ==
    LET c1 == [c EXCEPT !.r.fetches = @ + 1] IN
    IF resp.s = "raise" THEN Raised(c1, "RequestException")
    ELSE [c1 EXCEPT !.r.response = resp, !.r.error = (c.r.error \/ resp.s # "ok")]

\* Request.store / JobLogRequest.store
store(k, c) ==
    [c EXCEPT !.r.request_data =
        IF k = "logs" THEN splitlines(Body(c.r.response)) ELSE Body(c.r.response)]

\* Request.download
download(k, c, resp) ==
    LET c1 == request(c, resp) IN IF Failed(c1) THEN c1 ELSE store(k, c1)

SetFile(d, p, content) == [n \in DOMAIN d \cup {p} |-> IF n = p THEN content ELSE d[n]]

\* Request.write / JobLogRequest.write: open(.., "w") empties the file, then
\* json.dump writes the tokens; fp.write of the list of lines is a TypeError
write(k, c, clk) ==
    LET c1 == filepath(k, c, clk)
        p == PathOf(k, c1.r)
    IN  IF k = "logs"
        THEN Raised([c1 EXCEPT !.d = SetFile(c1.d, p, <<>>), !.r.writes = @ + 1], "TypeError")
        ELSE [c1 EXCEPT !.d = SetFile(c1.d, p, json_dump(c1.r.request_data)), !.r.writes = @ + 1]

\* the process dies in write after n tokens went to the file
write_crash(k, c, clk, n) ==
    LET c1 == filepath(k, c, clk)
        p == PathOf(k, c1.r)
    IN  [c1 EXCEPT !.d = SetFile(c1.d, p, SubSeq(json_dump(c1.r.request_data), 1, n)),
                   !.r.writes = @ + 1, !.r.pc = "crashed"]

\* ------------------------------------------------------------------------
\* data and is_open of a request
\* ------------------------------------------------------------------------
\* What the objects outside the followed directory answer: the openness of the
\* parent Job (logs), whether constructing the nested requests of the members
\* raises (mkdeploy, mkrun, mklog), the openness of a Deploy (derived from its
\* statuses request)
Env(k) ==
    [parentOpen : IF k = "logs" THEN BOOLEAN ELSE {FALSE},
     nestedRaise : IF k \in {"deploys", "runs", "jobs"} THEN BOOLEAN ELSE {FALSE},
     deployOpen : IF k = "deploys" THEN BOOLEAN ELSE {FALSE}]

\* the values `for x in v` yields
Iterate(v) ==
    IF v.t = "list" THEN v.items ELSE [i \in 1..Len(v.items) |-> JStr(v.items[i].s)]

\* the Run a JobsRequest was constructed for
ParentRun == [t |-> "Run", s |-> "", items |-> <<JPair("id", JStr("7"))>>]

\* the entity class of a request's data
EntityClass(k) ==
    CASE k = "pages" -> "Pages"
      [] k = "commits" -> "Commit"
      [] k = "deploys" -> "Deploy"
      [] k = "builds" -> "PagesBuild"
      [] k = "runs" -> "Run"
      [] k = "statuses" -> "DeployStatus"
      [] k = "jobs" -> "Job"

\* the entity one member document becomes; JobsRequest.mklog calls
\* Job(data, self.parent), so the Run is what Object.__init__ reads
MemberObject(k, x) ==
    IF k = "jobs" THEN ChildObjectInit("Job", x, ParentRun)
    ELSE ObjectInit(EntityClass(k), x)

\* [ mk(x) for x in xs ]: the entities, or <<the exception raised>>
RECURSIVE MapMembers(_, _, _, _)
RECURSIVE MapNext(_, _, _, _, _)
MapNext(k, xs, i, acc, obj) ==
    IF IsRaise(obj) THEN <<obj>> ELSE MapMembers(k, xs, i + 1, Append(acc, obj))
MapMembers(k, xs, i, acc) ==
    IF i > Len(xs) THEN acc ELSE MapNext(k, xs, i, acc, MemberObject(k, xs[i]))

\* the raw list a list request iterates over
RawMembers(k, rd) ==
    CASE k = "runs" -> Subscript(rd, "workflow_runs")
      [] k = "jobs" -> Subscript(rd, "jobs")
      [] OTHER -> rd

ListOf(env, objs) ==
    IF Len(objs) = 1 /\ IsRaise(objs[1]) THEN objs[1]
    ELSE IF Len(objs) > 0 /\ env.nestedRaise THEN Raise("NestedRequest")
    ELSE JList(objs)

ListData(k, env, raw) ==
    IF IsRaise(raw) THEN raw
    ELSE IF raw.t \notin {"list", "obj"} THEN Raise("TypeError")
    ELSE ListOf(env, MapMembers(k, Iterate(raw), 1, <<>>))

\* the `data` property: an entity, a list of entities, or the exception raised
data(k, rd, env) ==
    IF k \in {"pages", "commits"} THEN ObjectInit(EntityClass(k), rd)
    ELSE IF k = "logs" THEN [t |-> "Log", s |-> "", items |-> rd.items]
    ELSE ListData(k, env, RawMembers(k, rd))

IsOpen(exc, val) == [exc |-> exc, val |-> val]

\* Request.is_open on the data: hasattr(data, "is_open") sends it to itself
OpenOf(k, env, dat) ==
    IF IsRaise(dat) THEN IsOpen(dat.s, FALSE)
    ELSE IF dat.t # "list" THEN IsOpen("RecursionError", FALSE)
    ELSE IsOpen("", \E i \in 1..Len(dat.items) :
                      IF k = "deploys" THEN env.deployOpen ELSE ObjectIsOpen(dat.items[i]))

\* Request.is_open / JobLogRequest.is_open: [exc, val]
is_open(k, rd, env) ==
    IF k = "logs" THEN IsOpen("", env.parentOpen)
    ELSE OpenOf(k, env, data(k, rd, env))

\* ------------------------------------------------------------------------
\* Actions
\* ------------------------------------------------------------------------
Ctx == [r |-> req, d |-> disk]

\* an uncaught exception or a crash ends the process
AppAfter(r) == IF r.pc \in {"raised", "crashed"} THEN [app EXCEPT !.state = "ended"] ELSE app

Advance(r, to) == IF r.pc \in {"raised", "crashed"} THEN r ELSE [r EXCEPT !.pc = to]

\* cli.main: App(**kwargs); --local with --refresh aborts (exit(1))
AppInit(local, refresh) ==
    /\ app.state # "running"
    /\ runs < MaxRuns
    /\ runs' = runs + 1
    /\ app' = [state |-> IF local /\ refresh THEN "aborted" ELSE "running",
               force_local |-> local, refresh |-> refresh]
    /\ req' = NoRequest
    /\ nreq' = 0
    /\ UNCHANGED <<kind, disk, clock, crashes, pol, ent>>

\* the process ends after its requests
AppExit ==
    /\ app.state = "running"
    /\ req.pc \in {"none", "done"}
    /\ app' = [app EXCEPT !.state = "ended"]
    /\ UNCHANGED <<kind, disk, clock, req, runs, nreq, crashes, pol, ent>>

\* time passes
Tick ==
    /\ clock < MaxClock
    /\ clock' = clock + 1
    /\ UNCHANGED <<kind, disk, app, req, runs, nreq, crashes, pol, ent>>

\* Request.__init__, before get()
RequestInit ==
    /\ app.state = "running"
    /\ req.pc \in {"none", "done"}
    /\ nreq < MaxRequests
    /\ nreq' = nreq + 1
    /\ req' = NewRequest
    /\ UNCHANGED <<kind, disk, clock, app, runs, crashes, pol, ent>>

Leave(c, to) ==
    /\ req' = Advance(c.r, to)
    /\ disk' = c.d
    /\ app' = AppAfter(c.r)
    /\ UNCHANGED <<kind, clock, runs, nreq, pol, ent>>

\* Request.get, first half: a cache file exists and is loaded
GetLoad ==
    /\ req.pc = "get"
    /\ exists(kind, disk)
    /\ Leave(load(kind, [Ctx EXCEPT !.r.hit = TRUE], clock), "refresh")
    /\ UNCHANGED crashes

\* write() unless download() raised
ThenWrite(c) == IF Failed(c) THEN c ELSE write(kind, c, clock)

\* Request.get, first half: no cache file: download() and write()
GetDownload ==
    /\ req.pc = "get"
    /\ ~exists(kind, disk)
    /\ \E resp \in Responses(kind) : Leave(ThenWrite(download(kind, Ctx, resp)), "refresh")
    /\ UNCHANGED crashes

\* write() in which the process dies after n tokens
CrashIn(c, n, to) ==
    /\ ~Failed(c)
    /\ n < Len(json_dump(c.r.request_data))
    /\ Leave(write_crash(kind, c, clock, n), to)

\* ... and the process dies in that write()
GetCrash ==
    /\ req.pc = "get"
    /\ ~exists(kind, disk)
    /\ crashes < MaxCrashes
    /\ kind # "logs"
    /\ \E resp \in Responses(kind), n \in 0..MaxTokens : CrashIn(download(kind, Ctx, resp), n, "refresh")
    /\ crashes' = crashes + 1

\* the property should_refresh: an exception of self.is_open reaches the
\* caller only where should_refresh reads self.is_open
Decide(io) ==
    IF ReadsIsOpen(PolicyOf(kind), app.force_local, req.downloaded) /\ io.exc # ""
    THEN IsOpen(io.exc, FALSE)
    ELSE IsOpen("", should_refresh(PolicyOf(kind), app.force_local, app.refresh,
                                   req.downloaded, io.val))

\* what refresh() may find when it reads self.should_refresh: [exc, val]
ShouldRefresh == { Decide(is_open(kind, req.request_data, env)) : env \in Env(kind) }

\* Request.refresh: should_refresh is false
RefreshSkip ==
    /\ req.pc = "refresh"
    /\ \E sr \in ShouldRefresh : sr.exc = "" /\ ~sr.val
    /\ Leave(Ctx, "done")
    /\ UNCHANGED crashes

\* Request.refresh: evaluating should_refresh raises
RefreshRaise ==
    /\ req.pc = "refresh"
    /\ \E sr \in ShouldRefresh : sr.exc # "" /\ Leave(Raised(Ctx, sr.exc), "done")
    /\ UNCHANGED crashes

\* self._filepath = self.default_filepath
SetDefaultFilepath(r) == [r EXCEPT !.cached_filepath = r.today]
Restored(c) == IF Failed(c) THEN c
               ELSE [c EXCEPT !.r = SetDefaultFilepath(today(store(kind, c).r, clock))]

\* refresh() down to its write(): download(), store(), _filepath = default_filepath
BeforeWrite(resp) == Restored(download(kind, Ctx, resp))

\* Request.refresh: should_refresh is true
RefreshFetch ==
    /\ req.pc = "refresh"
    /\ \E sr \in ShouldRefresh : sr.exc = "" /\ sr.val
    /\ \E resp \in Responses(kind) : Leave(ThenWrite(BeforeWrite(resp)), "done")
    /\ UNCHANGED crashes

\* ... and the process dies in that write()
RefreshCrash ==
    /\ req.pc = "refresh"
    /\ \E sr \in ShouldRefresh : sr.exc = "" /\ sr.val
    /\ crashes < MaxCrashes
    /\ kind # "logs"
    /\ \E resp \in Responses(kind), n \in 0..MaxTokens : CrashIn(BeforeWrite(resp), n, "done")
    /\ crashes' = crashes + 1

Init ==
    /\ kind \in Kinds
    /\ disk = <<>>
    /\ clock = 1
    /\ app = [state |-> "none", force_local |-> FALSE, refresh |-> FALSE]
    /\ req = NoRequest
    /\ runs = 0
    /\ nreq = 0
    /\ crashes = 0
    /\ pol = NoPolicy
    /\ ent = NoEntity

Next ==
    \/ \E local \in BOOLEAN, refresh \in BOOLEAN : AppInit(local, refresh)
    \/ AppExit
    \/ Tick
    \/ RequestInit
    \/ GetLoad
    \/ GetDownload
    \/ GetCrash
    \/ RefreshSkip
    \/ RefreshRaise
    \/ RefreshFetch
    \/ RefreshCrash

Spec == Init /\ [][Next]_vars

\* ------------------------------------------------------------------------
\* should_refresh on its own: every policy under every combination of
\* App.APP.force_local, App.APP.refresh, self.downloaded and self.is_open
\* ------------------------------------------------------------------------
\* the request machinery at rest
RequestsIdle ==
    /\ kind = "pages"
    /\ disk = <<>>
    /\ clock = 1
    /\ app = [state |-> "none", force_local |-> FALSE, refresh |-> FALSE]
    /\ req = NoRequest
    /\ runs = 0
    /\ nreq = 0
    /\ crashes = 0
RequestsUnchanged == UNCHANGED <<kind, disk, clock, app, req, runs, nreq, crashes>>

InitPolicy ==
    /\ RequestsIdle
    /\ ent = NoEntity
    /\ pol \in [policy : Policies, force_local : BOOLEAN, refresh : BOOLEAN,
                 downloaded : BOOLEAN, is_open : BOOLEAN, result : {FALSE}, done : {FALSE}]

Evaluate ==
    /\ ~pol.done
    /\ pol' = [pol EXCEPT !.done = TRUE,
                          !.result = should_refresh(pol.policy, pol.force_local, pol.refresh,
                                                    pol.downloaded, pol.is_open)]
    /\ RequestsUnchanged
    /\ UNCHANGED ent

NextPolicy == Evaluate

SpecPolicy == InitPolicy /\ [][NextPolicy]_vars


\* ------------------------------------------------------------------------
\* The entity layer on its own: an entity is constructed from a document and
\* one of is_ok, is_open, ok, repr is read
\* ------------------------------------------------------------------------
\* a key that is missing, or present with one of the values
Opt(key, vals) == {<<>>} \cup { <<JPair(key, v)>> : v \in vals }

ProgressVals == {JNull, JStr("queued"), JStr("in_progress"), JStr("completed")}
StatusVals == {JNull, JStr("success"), JStr("failure"), JStr("pending"),
               JStr("error"), JStr("in_progress"), JStr("queued"),
               JStr("SUCCESS"), JStr("cancelled")}
BuildVals == {JNull, JStr("built"), JStr("building"), JStr("errored"), JStr("null"),
              JStr("queued")}

EntityClasses == {"Commit", "DeployStatus", "Job", "Pages", "PagesBuild", "Run", "Step"}

\* the documents the entities are constructed from
EntityDocs(cls) ==
    CASE cls \in {"Job", "Run"} ->
           { JObj(<<JPair("id", JStr("7"))>> \o a \o b) :
               a \in Opt("status", ProgressVals), b \in Opt("conclusion", StatusVals) }
      [] cls = "Pages" ->
           { JObj(<<JPair("source", Obj1("branch", JStr("gh-pages")))>> \o a) :
               a \in Opt("status", BuildVals) }
      [] cls = "PagesBuild" ->
           { JObj(u \o a) :
               u \in Opt("url", {JStr("https://api.github.com/repos/o/r/pages/builds/42")}),
               a \in Opt("status", BuildVals) }
      [] cls = "DeployStatus" ->
           { JObj(<<JPair("id", JStr("1"))>> \o a) : a \in Opt("state", StatusVals) }
      [] cls = "Step" ->
           { JObj(<<JPair("name", JStr("build"))>> \o a) : a \in Opt("conclusion", StatusVals) }
      [] cls = "Commit" ->
           { JObj(<<>>),
             Obj1("sha", JStr("")),
             Obj2("sha", JStr("abc"), "commit", Obj1("message", JStr("msg"))),
             Obj2("sha", JStr("abc"), "commit", Obj1("author", Obj1("date", JStr("2020-12-01T08:20:09Z")))),
             Obj2("sha", JStr("abc"), "commit", Obj1("author", Obj1("date", JStr("yesterday")))),
             Obj2("sha", JStr("abc"), "commit", JStr("msg")) }

InitObject ==
    /\ RequestsIdle
    /\ pol = NoPolicy
    /\ \E c \in EntityClasses : \E d \in EntityDocs(c) :
         ent = [pc |-> "new", cls |-> c, data |-> d, obj |-> None, res |-> None]

\* klass(data), or klass(parent, data) for the child classes
Built(o) == [ent EXCEPT !.obj = o, !.pc = IF IsRaise(o) THEN "raised" ELSE "built"]
Construct ==
    /\ ent.pc = "new"
    /\ ent' = Built(IF ent.cls \in {"Job", "Step"}
                    THEN ChildObjectInit(ent.cls, None, ent.data)
                    ELSE ObjectInit(ent.cls, ent.data))
    /\ RequestsUnchanged
    /\ UNCHANGED pol

Query(name, val) ==
    /\ ent.pc = "built"
    /\ ent' = [ent EXCEPT !.pc = name, !.res = val]
    /\ RequestsUnchanged
    /\ UNCHANGED pol

QueryIsOk == Query("is_ok", PyBool(ObjectIsOk(ent.obj)))
QueryIsOpen == Query("is_open", PyBool(ObjectIsOpen(ent.obj)))
QueryOk == Query("ok", ObjectOk(ent.obj))
QueryRepr == Query("repr", ObjectRepr(ent.obj, ent.data))

\* is_ok, is_open and ok of one entity, read one after the other
Summary(obj) ==
    [t |-> "tuple", s |-> "",
     items |-> <<PyBool(ObjectIsOk(obj)), PyBool(ObjectIsOpen(obj)), ObjectOk(obj)>>]
QuerySummary == Query("summary", Summary(ent.obj))

NextObject ==
    \/ Construct
    \/ QueryIsOk
    \/ QueryIsOpen
    \/ QueryOk
    \/ QueryRepr
    \/ QuerySummary

SpecObject == InitObject /\ [][NextObject]_vars

\* ------------------------------------------------------------------------
\* SpecStates: a state class is called with a string, and the Ok of the
\* member it returns is read (ghp/states.py)
\* ------------------------------------------------------------------------
NameInputs == {"queued", "in_progress", "completed", "null", "building", "built",
               "errored", "error", "failure", "pending", "success",
               "QUEUED", "Queued", "SUCCESS", "Completed", "IN_PROGRESS", "BUILT",
               "Errored", "NULL", "Failure", "bogus", "BOGUS", "cancelled", ""}

InitStates ==
    /\ RequestsIdle
    /\ pol = NoPolicy
    /\ \E c \in StateClasses : \E n \in NameInputs :
         ent = [pc |-> "new", cls |-> c, data |-> JStr(n), obj |-> None, res |-> None]

\* cls(value)
FromName ==
    /\ ent.pc = "new"
    /\ ent' = Built(StateFromName(ent.cls, ent.data))
    /\ RequestsUnchanged
    /\ UNCHANGED pol

\* member.ok
ReadOk == Query("ok", OkMember(StateOk(ent.obj)))

NextStates ==
    \/ FromName
    \/ ReadOk

SpecStates == InitStates /\ [][NextStates]_vars

\* ------------------------------------------------------------------------
\* SpecRget: rget is called with a source and a path (ghp/objects.py)
\* ------------------------------------------------------------------------
Chars(cs) == Text([i \in 1..Len(cs) |-> JStr(cs[i])])
KeyList(ks) == JList([i \in 1..Len(ks) |-> JStr(ks[i])])

RgetSources ==
    { None, JObj(<<>>), JStr(""), JStr("abc"), JList(<<>>), JList(<<JStr("x")>>),
      Obj1("a", JStr("x")), Obj1("a", JNull), Obj1("a", JObj(<<>>)),
      Obj1("a", JList(<<JStr("x")>>)),
      Obj1("a", Obj1("b", JStr("y"))),
      Obj2("a", Obj1("b", Obj1("c", JStr("z"))), "b", JStr("w")) }

RgetPaths ==
    { Chars(<<>>), Chars(<<"a">>), Chars(<<"b">>), Chars(<<"a", ".", "b">>),
      Chars(<<"b", ".", "a">>), Chars(<<"a", ".", "b", ".", "c">>),
      Chars(<<"a", ".", "c">>), Chars(<<"a", ".">>),
      KeyList(<<>>), KeyList(<<"a">>), KeyList(<<"a", "b">>), KeyList(<<"a", "b", "c">>) }

InitRget ==
    /\ RequestsIdle
    /\ pol = NoPolicy
    /\ \E src \in RgetSources : \E ks \in RgetPaths :
         ent = [pc |-> "new", source |-> src, keys |-> ks, res |-> None]

\* rget(source, keys)
Returned(val) == [ent EXCEPT !.res = val, !.pc = IF IsRaise(val) THEN "raised" ELSE "returned"]
RgetCall ==
    /\ ent.pc = "new"
    /\ ent' = Returned(rget(ent.source, KeysOf(ent.keys)))
    /\ RequestsUnchanged
    /\ UNCHANGED pol

NextRget == RgetCall

SpecRget == InitRget /\ [][NextRget]_vars

\* ------------------------------------------------------------------------
\* SpecDeploy: master_sha of a deploy is read, for a body of its commit
\* (ghp/objects.py)
\* ------------------------------------------------------------------------
Pieces == { JStr(" "), JStr("\n"), JStr("msg"), JStr("x"),
            JStr("dfe4c0a60db827a8576bb510f99d574f9a42be4d"),
            JStr("dfe4c0a60db827a8576bb510f99d574f9a42be4") }

\* the body attribute of the commit: None, or a str
Bodies == {None} \cup { Text(ps) : ps \in UNION { [1..n -> Pieces] : n \in 0..MaxPieces } }

InitDeploy ==
    /\ RequestsIdle
    /\ pol = NoPolicy
    /\ \E b \in Bodies : ent = [pc |-> "new", body |-> b, res |-> None]

\* deploy.master_sha
MasterSha ==
    /\ ent.pc = "new"
    /\ ent' = Returned(master_sha(ent.body))
    /\ RequestsUnchanged
    /\ UNCHANGED pol

\* deploy.message
DeployMessage ==
    /\ ent.pc = "new"
    /\ \E val \in {Deploy_message(ent.body)} :
         ent' = [ent EXCEPT !.res = val,
                            !.pc = IF IsRaise(val) THEN "message_raised" ELSE "message"]
    /\ RequestsUnchanged
    /\ UNCHANGED pol

NextDeploy ==
    \/ MasterSha
    \/ DeployMessage

SpecDeploy == InitDeploy /\ [][NextDeploy]_vars

\* ------------------------------------------------------------------------
\* SpecBuild: error and more_info of a pages build are read, for an error
\* message of its document (ghp/objects.py)
\* ------------------------------------------------------------------------
MessagePieces == {" ", "\n", "Page build failed.", Separator, "https://docs.github.com/pages"}
Messages == { JoinFrom(ps, 1) :
                ps \in UNION { [1..n -> {JStr(x) : x \in MessagePieces}] : n \in 0..MaxPieces } }

BuildUrl == JPair("url", JStr("https://api.github.com/repos/o/r/pages/builds/42"))
BuildDocs ==
    { JObj(<<BuildUrl>>), JObj(<<BuildUrl, JPair("error", Obj1("message", JNull))>>) }
    \cup { JObj(<<BuildUrl, JPair("error", Obj1("message", JStr(m)))>>) : m \in Messages }

InitBuild ==
    /\ RequestsIdle
    /\ pol = NoPolicy
    /\ \E d \in BuildDocs :
         ent = [pc |-> "new", cls |-> "PagesBuild", data |-> d, obj |-> None, res |-> None]

\* build.error
QueryError == Query("error", PagesBuild_error(GetAttr(ent.obj, "message")))
\* build.more_info
QueryMoreInfo == Query("more_info", PagesBuild_more_info(GetAttr(ent.obj, "message")))

NextBuild ==
    \/ Construct
    \/ QueryError
    \/ QueryMoreInfo

SpecBuild == InitBuild /\ [][NextBuild]_vars

\* ------------------------------------------------------------------------
\* SpecJob: last_step of a job is read, for a job document with its steps
\* (ghp/objects.py)
\* ------------------------------------------------------------------------
StepDoc(i, c) == Obj2("number", JStr(ToString(i)), "conclusion", c)
StepLists ==
    UNION { { [i \in 1..n |-> StepDoc(i, cs[i])] :
                cs \in [1..n -> {JNull, JStr("success"), JStr("failure")}] } : n \in 0..MaxSteps }
JobDocs ==
    { JObj(<<JPair("id", JStr("7")), JPair("status", p), JPair("conclusion", c),
             JPair("steps", JList(ss))>>) :
        p \in {JStr("in_progress"), JStr("completed")},
        c \in {JNull, JStr("success"), JStr("failure")},
        ss \in StepLists }

InitJob ==
    /\ RequestsIdle
    /\ pol = NoPolicy
    /\ \E d \in JobDocs :
         ent = [pc |-> "new", cls |-> "Job", data |-> d, obj |-> None, res |-> None]

\* job.last_step
QueryLastStep == Query("last_step", Job_last_step(ent.obj, ent.data))

NextJob ==
    \/ Construct
    \/ QueryLastStep

SpecJob == InitJob /\ [][NextJob]_vars

\* ------------------------------------------------------------------------
\* SpecRun: find_deploy and find_build are called on a run, in any order
\* and any number of times (ghp/objects.py)
\* ------------------------------------------------------------------------
ShaA == "dfe4c0a60db827a8576bb510f99d574f9a42be4d"
ShaB == "0123456789abcdef0123456789abcdef01234567"

\* the commit document of a deploy, for the message of the commit
CommitDoc(pieces) == Obj1("commit", Obj1("message", Text(pieces)))
DeployDoc(x) == Obj2("id", JStr("1"), "sha", JStr(x))

\* deploys whose commit message ends with a sha of master, has none, is
\* whitespace only, or is missing
DeployObjects ==
    { DeployWith(DeployDoc("d1"), CommitDoc(<<JStr("deploy"), JStr(" "), JStr(ShaA)>>)),
      DeployWith(DeployDoc("d2"), CommitDoc(<<JStr("deploy"), JStr(" "), JStr(ShaA)>>)),
      DeployWith(DeployDoc("d1"), CommitDoc(<<JStr("deploy"), JStr(" "), JStr(ShaB)>>)),
      DeployWith(DeployDoc("d1"), CommitDoc(<<JStr("deploy")>>)),
      DeployWith(DeployDoc("d1"), CommitDoc(<<JStr(" ")>>)),
      DeployWith(DeployDoc("d2"), JObj(<<>>)) }
BuildObjects ==
    { ObjectInit("PagesBuild", Obj2("status", JStr("built"), "commit", JStr("d1"))),
      ObjectInit("PagesBuild", Obj2("status", JStr("errored"), "commit", JStr("d1"))),
      ObjectInit("PagesBuild", Obj2("status", JStr("built"), "commit", JStr("d2"))) }
RunDocs ==
    { Obj1("id", JStr("7")), Obj2("id", JStr("7"), "head_sha", JStr(ShaA)) }

InitRun ==
    /\ RequestsIdle
    /\ pol = NoPolicy
    /\ \E d \in RunDocs :
       \E ds \in UNION { [1..n -> DeployObjects] : n \in 0..MaxDeploys } :
       \E bs \in UNION { [1..n -> BuildObjects] : n \in 0..MaxBuilds } :
         ent = [pc |-> "init", run |-> RunInit(d), deploys |-> ds, builds |-> bs, res |-> None]

Looked(name, found) == [ent EXCEPT !.pc = name, !.run = found.run, !.res = found.ret]

\* run.find_deploy(deploys)
FindDeploy ==
    /\ ent' = Looked("find_deploy", find_deploy(ent.run, ent.deploys))
    /\ RequestsUnchanged
    /\ UNCHANGED pol

\* run.find_build(builds)
FindBuild ==
    /\ ent' = Looked("find_build", find_build(ent.run, ent.builds))
    /\ RequestsUnchanged
    /\ UNCHANGED pol

NextRun ==
    \/ FindDeploy
    \/ FindBuild

SpecRun == InitRun /\ [][NextRun]_vars

\* ------------------------------------------------------------------------
\* Properties
\* ------------------------------------------------------------------------
\* the files of the directory that hold a complete document of the API
CompleteDocs == { json_dump(d) : d \in SuccessDocs(kind) }
\* the greatest name of a non-empty set of file names
Greatest(S) == CHOOSE x \in S : \A y \in S : y <= x
\* the step that leaves get()'s first half / refresh() of the current instance
LeavesGet == req.pc = "get" /\ req'.pc # "get"
LeavesRefresh == req.pc = "refresh" /\ req'.pc # "refresh"
\* what a new instance would load from the directory as it is
LoadedBack == load(kind, [r |-> NewRequest, d |-> disk], clock).r.request_data

\* C1: for every combination of force_local, refresh, downloaded and is_open,
\* should_refresh is: Dynamic = refresh and not downloaded; Finite = false if
\* force_local or downloaded, else is_open; Additive = false if force_local or
\* downloaded, else is_open or refresh; Static = false.
C1_should_refresh_table ==
    pol.done =>
        pol.result =
            CASE pol.policy = "Dynamic" -> pol.refresh /\ ~pol.downloaded
              [] pol.policy = "Finite" ->
                    ~pol.force_local /\ ~pol.downloaded /\ pol.is_open
              [] pol.policy = "Additive" ->
                    ~pol.force_local /\ ~pol.downloaded /\ (pol.is_open \/ pol.refresh)
              [] pol.policy = "Static" -> FALSE

\* an Additive request refreshes on --refresh alone
C1_witness ==
    /\ pol.done
    /\ pol.policy = "Additive"
    /\ pol.refresh /\ ~pol.is_open /\ ~pol.force_local /\ ~pol.downloaded
    /\ pol.result

\* C2: when the fetch of a refresh is answered with a non-success response,
\* every cache file that held a complete document keeps its content.
C2_failed_refresh_keeps_cache ==
    [][(LeavesRefresh /\ req.hit /\ req'.fetches = req.fetches + 1
            /\ req'.response.s = "fail" /\ req'.pc # "crashed")
        => \A n \in DOMAIN disk : disk[n] \in CompleteDocs => disk'[n] = disk[n]]_vars

\* C3: the body of a non-success response is never the request's raw document
\* and never the content of a cache file.
C3_error_body_never_kept ==
    /\ req.request_data \notin {ErrorBody, splitlines(ErrorText)}
    /\ \A n \in DOMAIN disk : disk[n] # json_dump(ErrorBody)

\* C4: an instance that found no cache file, and so fetched in get(), has
\* fetched exactly once when its construction ends.
C4_initial_fetch_is_the_only_fetch ==
    (req.pc = "done" /\ ~req.hit) => req.fetches = 1

\* C5: in a run started with --local, a request whose cache file exists
\* performs no fetch and writes no file, whatever its policy.
C5_force_local_never_refreshes ==
    (app.state # "none" /\ app.force_local /\ req.hit) => (req.fetches = 0 /\ req.writes = 0)

\* a status request with --local has loaded an open (pending) status and is done
C5_witness ==
    /\ app.force_local
    /\ kind = "statuses"
    /\ req.hit /\ req.pc = "done"
    /\ req.request_data = JList(<<Obj1("state", JStr("pending"))>>)

\* C6: a request that takes the cache-hit branch never fails to parse the
\* file it loads: a file cut short by a crash is not taken as the cache.
C6_truncated_file_not_taken_as_cache ==
    ~(req.hit /\ req.exc = "JSONDecodeError")

\* C7: once the file of a commit request exists, no step changes the
\* directory and no step fetches, whatever the flags of the run.
C7_commit_cache_is_immutable ==
    [][(kind = "commits" /\ IdName(kind) \in DOMAIN disk)
        => (disk' = disk /\ req'.fetches <= req.fetches)]_vars

\* a commit request of a second run, started with --refresh, took the file
C7_witness ==
    /\ kind = "commits"
    /\ runs = 2 /\ app.refresh
    /\ req.hit /\ req.pc = "done"
    /\ disk[IdName(kind)] \in CompleteDocs

\* C8 as stated: a date-snapshot request uses the existing file with the
\* greatest stamp whenever a file exists, else the file stamped now, and
\* fetches in get() iff no file exists.
C8_initial_file_any_existing ==
    [][(~Keyed(kind) /\ LeavesGet)
        => /\ (req'.fetches = 1) <=> (DOMAIN disk = {})
           /\ req'.cached_filepath # 0 =>
                req'.cached_filepath = IF DOMAIN disk # {} THEN Greatest(DOMAIN disk) ELSE clock]_vars

\* C8 amended: the same with "file" read as "non-empty file": an empty file
\* is passed over, both for the choice of the file and for the fetch.
C8_initial_file_non_empty ==
    [][(~Keyed(kind) /\ LeavesGet)
        => LET present == {n \in DOMAIN disk : disk[n] # <<>>} IN
           /\ (req'.fetches = 1) <=> (present = {})
           /\ (req'.cached_filepath = 0) <=> (req'.exc = "RequestException")
           /\ req'.cached_filepath # 0 =>
                req'.cached_filepath = IF present # {} THEN Greatest(present) ELSE clock]_vars

\* a request loaded the older of two files, the newer one being empty
C8_witness ==
    /\ ~Keyed(kind)
    /\ req.hit /\ req.pc = "refresh"
    /\ req.cached_filepath = 1
    /\ 2 \in DOMAIN disk /\ disk[2] = <<>>

\* C9: when a date-snapshot request that loaded its cache refreshes, the
\* files that existed keep their content and the file written is the one a
\* later request resolves.
C9_refresh_writes_a_fresh_file ==
    [][(~Keyed(kind) /\ LeavesRefresh /\ req.hit /\ req'.writes = req.writes + 1
            /\ req'.pc = "done")
        => /\ \A n \in DOMAIN disk : disk'[n] = disk[n]
           /\ req'.cached_filepath = files(disk')[1]]_vars

\* C10: after a request has written its document, loading the file gives the
\* raw document the request holds.
C10_write_load_round_trip ==
    (req.writes > 0 /\ req.pc # "crashed") => LoadedBack = req.request_data

\* the state attributes an entity has, and those that hold a value
StateAttrs == {a \in {"progress", "status"} : HasAttr(ent.obj, a)}
ValuedAttrs == {a \in StateAttrs : Truthy(GetAttr(ent.obj, a))}
OutcomeOf(a) == StateOk(GetAttr(ent.obj, a))

\* C11 as stated: is_ok is true iff every state attribute whose value is
\* present has Outcome Ok (true with zero state attributes).
C11_is_ok_over_present_values ==
    ent.pc = "is_ok" =>
        ent.res = PyBool(\A a \in ValuedAttrs : OutcomeOf(a) = Ok_ok)

\* C11 amended: is_ok is true iff every state attribute the entity has holds
\* a value and that value has Outcome Ok (true with zero state attributes):
\* a state attribute without a value makes is_ok false.
C11_is_ok_needs_every_value ==
    ent.pc = "is_ok" =>
        ent.res = PyBool(/\ StateAttrs = ValuedAttrs
                         /\ \A a \in ValuedAttrs : OutcomeOf(a) = Ok_ok)

\* a completed job without a conclusion is not ok
C11_witness ==
    /\ ent.pc = "is_ok"
    /\ ent.cls = "Job"
    /\ GetAttr(ent.obj, "progress") = Member("Progress", "completed")
    /\ GetAttr(ent.obj, "status") = None
    /\ ent.res = PyBool(FALSE)

\* C12: is_open is true iff at least one state attribute has no value or has
\* Outcome Busy; it is false without state attributes.
C12_is_open_absent_or_busy ==
    ent.pc = "is_open" =>
        ent.res = PyBool(\/ StateAttrs # ValuedAttrs
                         \/ \E a \in ValuedAttrs : OutcomeOf(a) = Ok_busy)

\* a completed run without a conclusion is open
C12_witness ==
    /\ ent.pc = "is_open"
    /\ ent.cls = "Run"
    /\ GetAttr(ent.obj, "progress") = Member("Progress", "completed")
    /\ GetAttr(ent.obj, "status") = None
    /\ ent.res = PyBool(TRUE)

\* C13: with at least one state that has a value, ok is the least Outcome of
\* those states in the order error < fail < busy < ok.
C13_ok_is_the_worst_outcome ==
    (ent.pc = "ok" /\ ValuedAttrs # {}) =>
        /\ ent.res.t = "Ok"
        /\ \E a \in ValuedAttrs : ent.res = OkMember(OutcomeOf(a))
        /\ \A a \in ValuedAttrs : ent.res.s \in
              CASE OutcomeOf(a) = Ok_ok -> {"ok", "busy", "fail", "error"}
                [] OutcomeOf(a) = Ok_busy -> {"busy", "fail", "error"}
                [] OutcomeOf(a) = Ok_fail -> {"fail", "error"}
                [] OutcomeOf(a) = Ok_error -> {"error"}

\* a completed job that failed is fail
C13_witness ==
    /\ ent.pc = "ok"
    /\ ent.cls = "Job"
    /\ GetAttr(ent.obj, "progress") = Member("Progress", "completed")
    /\ GetAttr(ent.obj, "status") = Member("Status", "failure")
    /\ ent.res = OkMember(Ok_fail)

\* C14: ok of an entity none of whose state attributes has a value is Ok.
C14_ok_of_no_states_is_ok ==
    (ent.pc = "ok" /\ ValuedAttrs = {}) => ent.res = OkMember(Ok_ok)

\* the Outcome the state table fixes for each member, as Ok names
OutcomeTable ==
    [Progress |-> [queued |-> "busy", in_progress |-> "busy", completed |-> "ok"],
     BuildStatus |-> [null |-> "busy", queued |-> "busy", building |-> "busy",
                      built |-> "ok", errored |-> "fail"],
     Status |-> [error |-> "fail", failure |-> "fail", pending |-> "busy",
                 in_progress |-> "busy", queued |-> "busy", success |-> "ok"]]

\* C15: every member of Progress, BuildStatus and Status carries the Outcome
\* of the fixed table, which is never Error; the members of each class are
\* exactly those of the table, and reading a member's Outcome leaves the
\* member as it was.
C15_state_outcome_table ==
    /\ \A c \in StateClasses : DOMAIN StateTable(c) = DOMAIN OutcomeTable[c]
    /\ ent.pc \in {"built", "ok"} =>
         /\ ent.obj.t = ent.cls
         /\ ent.obj.s \in DOMAIN OutcomeTable[ent.cls]
         /\ StateOk(ent.obj) # Ok_error
         /\ OkMember(StateOk(ent.obj)).s = OutcomeTable[ent.cls][ent.obj.s]
    /\ ent.pc = "ok" => ent.res.s = OutcomeTable[ent.cls][ent.obj.s]

\* the Outcome of Status.pending was read, and it is Busy
C15_witness ==
    /\ ent.pc = "ok"
    /\ ent.obj = Member("Status", "pending")
    /\ ent.res = OkMember(Ok_busy)

\* the members of the called class whose name equals the string ignoring case
NamedIgnoringCase ==
    {n \in DOMAIN OutcomeTable[ent.cls] : Lower(n) = Lower(ent.data.s)}

\* C16: a state class called with a string returns the member whose name
\* equals the string ignoring case when there is one, and otherwise raises
\* the unknown-value error (ValueError); it never returns a default member.
C16_from_name_ignores_case_or_fails ==
    ent.pc \in {"built", "raised"} =>
        IF NamedIgnoringCase # {}
        THEN ent.pc = "built" /\ ent.obj.t = ent.cls /\ ent.obj.s \in NamedIgnoringCase
        ELSE ent.pc = "raised" /\ ent.obj = Raise("ValueError")

\* Status("Queued") is Status.queued
C16_witness ==
    /\ ent.pc = "built"
    /\ ent.cls = "Status"
    /\ ent.data = JStr("Queued")
    /\ ent.obj = Member("Status", "queued")

\* the value at the end of a path of segments, None where a segment cannot
\* be followed (the value is no mapping, or has no such key)
RECURSIVE Descend(_, _)
Descend(v, segs) ==
    IF Len(segs) = 0 THEN (IF v.t = "null" THEN None ELSE v)
    ELSE IF v.t = "obj" /\ \E i \in 1..Len(v.items) : v.items[i].s = Head(segs)
         THEN Descend(v.items[CHOOSE i \in 1..Len(v.items) : v.items[i].s = Head(segs)].items[1],
                      Tail(segs))
    ELSE None

\* C17: rget(source, path), for a path of at least one segment given as a
\* dotted string or as a list of keys, returns the value reached by
\* descending the path, and returns None without raising when the source is
\* empty or a segment cannot be followed.
C17_rget_descends_or_returns_absent ==
    (ent.pc \in {"returned", "raised"} /\ Len(ent.keys.items) > 0) =>
        /\ ent.pc = "returned"
        /\ ent.res = Descend(ent.source, KeysOf(ent.keys))

\* the fields of the constructed entity's class that declare a path, and
\* the value the path of a field resolves to in the source document
PathFields == {i \in 1..Len(Fields(ent.cls)) : Len(Fields(ent.cls)[i].key) > 0}
Resolved(f) == Descend(ent.data, f.key)
Wrapped(f, v, found) == IF f.klass # "" /\ found THEN Wrap(f.klass, v) ELSE v
Populated(f, v) == HasAttr(ent.obj, f.attr) /\ GetAttr(ent.obj, f.attr) = v

ReprAttrs == [i \in 1..Len(ent.res.items) |-> ent.res.items[i].s]
Shown(f) == f.repr /\ \E i \in 1..Len(ent.res.items) : ent.res.items[i].s = f.attr
AttrOf(flds) == [i \in 1..Len(flds) |-> flds[i].attr]

\* C19: repr(entity) shows only repr-eligible fields, in the order of the
\* mapping, shows every repr-eligible field that has a value, and shows no
\* field whose value is None.
C19_repr_omits_absent_fields ==
    ent.pc = "repr" =>
        /\ ent.res.t = "repr"
        /\ ReprAttrs = AttrOf(SelectSeq(Fields(ent.cls), Shown))
        /\ \A i \in 1..Len(ent.res.items) : ent.res.items[i].items[1] # None
        /\ \A i \in 1..Len(Fields(ent.cls)) :
              (/\ Fields(ent.cls)[i].repr
               /\ HasAttr(ent.obj, Fields(ent.cls)[i].attr)
               /\ GetAttr(ent.obj, Fields(ent.cls)[i].attr) # None)
              => Shown(Fields(ent.cls)[i])

\* the last whitespace-delimited token of a body, read from its end: the
\* pieces after the last whitespace that has a word behind it ("" when the
\* body has no word)
RECURSIVE TokenEndingAt(_, _, _)
TokenEndingAt(pieces, i, tok) ==
    IF i = 0 \/ pieces[i].s \in {" ", "\n", "\t"} THEN tok
    ELSE TokenEndingAt(pieces, i - 1, pieces[i].s \o tok)
RECURSIVE LastWordEnd(_, _)
LastWordEnd(pieces, i) ==
    IF i = 0 \/ pieces[i].s \notin {" ", "\n", "\t"} THEN i
    ELSE LastWordEnd(pieces, i - 1)
LastToken(body) ==
    IF body = None THEN ""
    ELSE TokenEndingAt(body.items, LastWordEnd(body.items, Len(body.items)), "")

\* C20: master_sha is the last whitespace-delimited token of the commit body
\* when that token has exactly 40 characters, and None in every other case
\* (body None, empty, whitespace only, last token of another length).
C20_master_sha_last_token_or_absent ==
    ent.pc \in {"returned", "raised"} =>
        ent.res = IF Len(LastToken(ent.body)) = 40
                  THEN [t |-> "Sha", s |-> LastToken(ent.body), items |-> <<>>]
                  ELSE None

\* the first line of a body: its pieces before the first line break
RECURSIVE LineOf(_, _)
LineOf(pieces, i) ==
    IF i > Len(pieces) \/ pieces[i].s = "\n" THEN "" ELSE pieces[i].s \o LineOf(pieces, i + 1)
EndsWith(s, suffix) ==
    Len(s) >= Len(suffix) /\ SubSeq(s, Len(s) - Len(suffix) + 1, Len(s)) = suffix
WithoutSuffix(s, suffix) ==
    IF Len(s) = Len(suffix) THEN "" ELSE SubSeq(s, 1, Len(s) - Len(suffix))
SuffixOf(body) == " " \o LastToken(body)

\* C21: for a commit that has a body, Deploy.message is the first line of
\* the body without its trailing " {master_sha}" when master_sha is present
\* and the line ends with it, and the first line unchanged otherwise.
C21_message_without_sha_suffix ==
    (ent.pc \in {"message", "message_raised"} /\ ent.body # None) =>
        ent.res = JStr(IF /\ Len(LastToken(ent.body)) = 40
                          /\ EndsWith(LineOf(ent.body.items, 1), SuffixOf(ent.body))
                       THEN WithoutSuffix(LineOf(ent.body.items, 1), SuffixOf(ent.body))
                       ELSE LineOf(ent.body.items, 1))

\* the raw error message of the build's document, the places where the
\* separator occurs in it, and the text before and after the first of them
RawMessage == Descend(ent.data, <<"error", "message">>)
NoMessage == RawMessage = None \/ RawMessage.s = ""
SeparatorAt ==
    {i \in 0..(Len(RawMessage.s) - Len("For more information, see")) :
        SubSeq(RawMessage.s, i + 1, i + Len("For more information, see")) = "For more information, see"}
FirstAt == CHOOSE i \in SeparatorAt : \A j \in SeparatorAt : i <= j
TextBefore == IF FirstAt = 0 THEN "" ELSE SubSeq(RawMessage.s, 1, FirstAt)
TextAfter ==
    IF FirstAt + Len("For more information, see") = Len(RawMessage.s) THEN ""
    ELSE SubSeq(RawMessage.s, FirstAt + Len("For more information, see") + 1, Len(RawMessage.s))

\* r is s without the whitespace around it
Blank(s, i) == SubSeq(s, i, i) \in {" ", "\n", "\t"}
IsStripped(r, s) ==
    /\ Len(r) > 0 => ~Blank(r, 1) /\ ~Blank(r, Len(r))
    /\ \E a \in 0..Len(s) :
         /\ a + Len(r) <= Len(s)
         /\ Len(r) > 0 => SubSeq(s, a + 1, a + Len(r)) = r
         /\ \A i \in 1..Len(s) : (i <= a \/ i > a + Len(r)) => Blank(s, i)

\* C22: when the raw error message of a pages build contains the separator
\* "For more information, see", error is the text before the separator and
\* more_info the text after it, both without surrounding whitespace; when
\* the build has no error message, error is "" and more_info is None.
C22_error_and_more_info_split ==
    /\ ent.pc = "error" =>
         IF NoMessage THEN ent.res = JStr("")
         ELSE SeparatorAt # {} => ent.res.t = "str" /\ IsStripped(ent.res.s, TextBefore)
    /\ ent.pc = "more_info" =>
         IF NoMessage THEN ent.res = None
         ELSE SeparatorAt # {} => ent.res.t = "str" /\ IsStripped(ent.res.s, TextAfter)

\* the error of a message that has text, whitespace and then the separator
C22_witness ==
    /\ ent.pc = "error"
    /\ RawMessage = JStr("Page build failed. For more information, see")
    /\ ent.res = JStr("Page build failed.")

\* the step documents of the job's document; a step is ok when its
\* conclusion is success, and the job is ok when it is completed with success
StepDocs == Descend(ent.data, <<"steps">>).items
StepOk(i) == Descend(StepDocs[i], <<"conclusion">>) = JStr("success")
JobOk ==
    /\ Descend(ent.data, <<"status">>) = JStr("completed")
    /\ Descend(ent.data, <<"conclusion">>) = JStr("success")
IsStep(step, i) ==
    /\ step.t = "Step"
    /\ GetAttr(step, "number") = JStr(ToString(i))
    /\ GetAttr(step, "status") =
         IF Descend(StepDocs[i], <<"conclusion">>) = None THEN None
         ELSE Member("Status", Descend(StepDocs[i], <<"conclusion">>).s)

\* C23: Job.last_step is None when the job has no steps; otherwise, when the
\* job is not ok it is the first step that is not ok, or the last step if
\* every step is ok, and when the job is ok it is the last step.
C23_last_step ==
    ent.pc = "last_step" =>
        IF Len(StepDocs) = 0 THEN ent.res = None
        ELSE IF ~JobOk /\ \E i \in 1..Len(StepDocs) : ~StepOk(i)
        THEN \E i \in 1..Len(StepDocs) :
                /\ ~StepOk(i)
                /\ \A j \in 1..(i - 1) : StepOk(j)
                /\ IsStep(ent.res, i)
        ELSE IsStep(ent.res, Len(StepDocs))

\* a failed job whose second of three steps is the first that failed
C23_witness ==
    /\ ent.pc = "last_step"
    /\ ~JobOk
    /\ Len(StepDocs) = 3
    /\ StepOk(1) /\ ~StepOk(2) /\ StepOk(3)
    /\ IsStep(ent.res, 2)

\* the body of the commit of the i-th deploy handed to find_deploy, the
\* master_sha derived from it, and the head SHA of the run
BodyOf(i) == GetAttr(GetAttr(ent.deploys[i], "commit"), "body")
HasWord(body) == body = None \/ Len(body.items) = 0 \/ LastToken(body) # ""
DerivedSha(i) ==
    IF Len(LastToken(BodyOf(i))) = 40
    THEN [t |-> "Sha", s |-> LastToken(BodyOf(i)), items |-> <<>>]
    ELSE None
HeadSha == GetAttr(ent.run, "sha")
MatchingDeploys == {i \in 1..Len(ent.deploys) : DerivedSha(i) = HeadSha}

FoundDeploy == GetAttr(ent.run, "deploy")
MatchingBuilds ==
    {i \in 1..Len(ent.builds) :
        FoundDeploy.t = "Deploy" /\ GetAttr(ent.builds[i], "sha") = GetAttr(FoundDeploy, "sha")}

\* C25: find_build stores in run.build and returns the first build whose
\* commit SHA equals the SHA of the deploy found for the run, and returns
\* Missing, never None, when no build matches or the run has no found deploy.
C25_find_build_first_match_or_missing ==
    ent.pc = "find_build" =>
        /\ GetAttr(ent.run, "build") = ent.res
        /\ IF MatchingBuilds # {}
           THEN \E i \in MatchingBuilds :
                   /\ \A j \in MatchingBuilds : i <= j
                   /\ ent.res = ent.builds[i]
           ELSE ent.res.t = "Missing"

\* C26: a job-log request that finds no file {job id}.log and whose fetch
\* succeeds does not fail: it holds the lines of the fetched text, and the
\* file exists and gives the same lines when it is loaded (as a later run
\* for a closed job does, without fetching).
C26_log_fetched_then_served_from_file ==
    [][(/\ kind = "logs"
        /\ LeavesGet
        /\ ~req'.hit
        /\ req'.response.s = "ok"
        /\ req'.pc # "crashed")
        => /\ req'.pc # "raised"
           /\ req'.request_data = splitlines(Body(req'.response))
           /\ IdName(kind) \in DOMAIN disk'
           /\ readlines(disk'[IdName(kind)]) = req'.request_data]_vars

\* the job documents of the raw document a jobs request holds, and the data
\* of the request when the log request of every job can be constructed
JobDocsHeld == Descend(req.request_data, <<"jobs">>)
JobsData ==
    data(kind, req.request_data, [parentOpen |-> FALSE, nestedRaise |-> FALSE, deployOpen |-> FALSE])
FromDoc(obj, doc, f) ==
    Len(f.key) > 0 =>
        /\ HasAttr(obj, f.attr)
        /\ GetAttr(obj, f.attr) = Wrapped(f, Descend(doc, f.key), Truthy(Descend(doc, f.key)))

\* C27: the data of a jobs request that holds a document with a list of jobs
\* is one Job per job document, in order, each with the run the request was
\* constructed for as parent and with its fields taken from its document.
C27_jobs_carry_run_and_own_fields ==
    (kind = "jobs" /\ req.request_data.t = "obj" /\ JobDocsHeld.t = "list") =>
        /\ JobsData.t = "list"
        /\ Len(JobsData.items) = Len(JobDocsHeld.items)
        /\ \A i \in 1..Len(JobDocsHeld.items) :
              /\ JobsData.items[i].t = "Job"
              /\ GetAttr(JobsData.items[i], "parent") = ParentRun
              /\ \A n \in 1..Len(Fields("Job")) :
                    FromDoc(JobsData.items[i], JobDocsHeld.items[i], Fields("Job")[n])

\* the state of the first status record of the cached document: the status
\* derived for the deploy, which is unresolved while it is absent or Busy
FirstState ==
    IF Len(req.request_data.items) = 0 THEN None
    ELSE Descend(req.request_data.items[1], <<"state">>)
Unresolved == FirstState = None \/ FirstState.s \in {"pending", "in_progress", "queued"}

\* C28: a statuses request that loaded its cache file, in a run without
\* --local, re-fetches iff the status derived from the first cached status
\* record is absent or Busy.
C28_statuses_refetched_iff_unresolved ==
    [][(/\ kind = "statuses"
        /\ LeavesRefresh
        /\ req.hit
        /\ ~app.force_local
        /\ ~req.downloaded
        /\ req.request_data.t = "list")
        => (req'.fetches > req.fetches <=> Unresolved)]_vars

\* C29: no entity is both ok and open, whatever its state attributes hold
\* (values, no value, or no state attribute at all); and an entity that is
\* neither open nor ok has ok = Ok.fail.
C29_never_ok_and_open ==
    ent.pc = "summary" =>
        /\ ~(ent.res.items[1] = PyBool(TRUE) /\ ent.res.items[2] = PyBool(TRUE))
        /\ (ent.res.items[1] = PyBool(FALSE) /\ ent.res.items[2] = PyBool(FALSE))
              => ent.res.items[3] = OkMember(Ok_fail)

\* a completed job that failed is neither ok nor open, and its ok is fail
C29_witness ==
    /\ ent.pc = "summary"
    /\ ent.cls = "Job"
    /\ GetAttr(ent.obj, "progress") = Member("Progress", "completed")
    /\ GetAttr(ent.obj, "status") = Member("Status", "failure")
    /\ ent.res.items = <<PyBool(FALSE), PyBool(FALSE), OkMember(Ok_fail)>>

\* an entity without state attributes is ok and not open
C29_witness_stateless ==
    /\ ent.pc = "summary"
    /\ StateAttrs = {}
    /\ ent.res.items[1] = PyBool(TRUE)
    /\ ent.res.items[2] = PyBool(FALSE)

\* what is_open should be for data that was constructed: the entity's is_open,
\* or whether a member of the list is open
OpenOfData(k, env, dat) ==
    IF dat.t # "list" THEN ObjectIsOpen(dat)
    ELSE \E i \in 1..Len(dat.items) :
            IF k = "deploys" THEN env.deployOpen ELSE ObjectIsOpen(dat.items[i])
OpenAnswers(k, env, dat, io) ==
    ~IsRaise(dat) => (io.exc = "" /\ io.val = OpenOfData(k, env, dat))

\* C30: is_open of a request that holds a document ends with a boolean: for
\* data that is one entity it is that entity's is_open, for data that is a
\* list it is true iff a member is open (false for the empty list).
C30_is_open_ends_with_a_boolean ==
    (req.pc = "refresh" /\ kind # "logs") =>
        \A env \in Env(kind) :
            OpenAnswers(kind, env, data(kind, req.request_data, env),
                        is_open(kind, req.request_data, env))

\* the same for the requests whose data is a list
C30_is_open_of_lists ==
    (req.pc = "refresh" /\ kind \notin {"logs", "pages", "commits"}) =>
        \A env \in Env(kind) :
            OpenAnswers(kind, env, data(kind, req.request_data, env),
                        is_open(kind, req.request_data, env))
====
